---- MODULE Spec2Model ----
(***************************************************************************)
(* PicSort: the safe-move engine.                                          *)
(*                                                                         *)
(*   FileOperation      src/src/models/file_operation.py                   *)
(*   organize command   src/src/cli/commands/organize.py                   *)
(*   resume command     src/src/cli/commands/resume.py                     *)
(*   Configuration      src/src/models/configuration.py                    *)
(*   FileMover, ResumeManager: lib/file_mover.py and lib/resume_manager.py *)
(*   are imported by the commands but are not part of the source tree;     *)
(*   they are modelled from spec.md sections 4.1-4.4.                      *)
(*                                                                         *)
(* Three specifications share the variables:                               *)
(*   SpecOp     one FileOperation under arbitrary transition_to calls      *)
(*   SpecMover  FileMover.move_files over a plan                           *)
(*   Spec       the organize command, process death, the resume command    *)
(*              (after an organize run, or on a record found on disk)      *)
(***************************************************************************)
EXTENDS Integers, Sequences, FiniteSets, TLC

VARIABLES
    fo,         \* SpecOp: the FileOperation under test
    foBefore,   \* SpecOp: its fields before the last transition_to call
    foArg,      \* SpecOp: the arguments of the last transition_to call
    foRaised,   \* SpecOp: whether the last transition_to call raised ValueError
    cmd,        \* the running command: "organize", "resume", "move_files"
    pc,         \* position of the running command
    inv,        \* the invocation: the arguments click parses and sys.argv
    cfg,        \* the Configuration in use (final_config / FileMover.config)
    dry_run,    \* the dry_run argument of FileMover.move_files
    fileName,   \* plan: file -> filename, as its dot-separated segments
    fileFolder, \* plan: file -> target folder
    sourceDir,  \* filesystem: the source path of the run exists and is a directory
    srcExists,  \* filesystem: file -> its source path exists
    dst,        \* filesystem: destination path -> content, for the paths that exist
    dst0,       \* history: dst as it was before the command started
    dirs,       \* filesystem: the target folders that exist
    ops,        \* the FileOperation objects of the running command, in plan order
    idx,        \* the loop index of the running command
    record,     \* the resume record on disk
    exitCode,   \* the exit code of the command that ended last
    calls,      \* history: file -> number of move_file calls made for it
    died,       \* history: where the organize process died (its pc), or NotDied
    resolved,   \* the value _get_destination_path returned or the error it raised
    media,      \* scan result: file -> the is_media and error fields of its MediaFile
    writeError  \* history: an update_resume_point call of the running command raised

opVars == <<fo, foBefore, foArg, foRaised>>

runVars == <<cmd, pc, inv, cfg, dry_run, fileName, fileFolder, sourceDir, srcExists, dst,
             dst0, dirs, ops, idx, record, exitCode, calls, died, resolved,
             media, writeError>>

vars == <<fo, foBefore, foArg, foRaised, cmd, pc, inv, cfg, dry_run, fileName,
          fileFolder, sourceDir, srcExists, dst, dst0, dirs, ops, idx, record, exitCode,
          calls, died, resolved, media, writeError>>

(***************************************************************************)
(* Python values                                                           *)
(***************************************************************************)
None == "<None>"

NotDied == "<alive>"

\* Python truthiness of an Optional[str]: None and "" are falsy.
Falsy(x) == x = None \/ x = ""

(***************************************************************************)
(* FileOperation (models/file_operation.py)                                *)
(***************************************************************************)
VALID_STATUSES == {"pending", "copying", "verifying", "completed", "failed", "skipped"}

VALID_TRANSITIONS ==
    [s \in VALID_STATUSES |->
        CASE s = "pending"   -> {"copying", "skipped", "failed"}
          [] s = "copying"   -> {"verifying", "failed"}
          [] s = "verifying" -> {"completed", "failed"}
          [] s = "completed" -> {}
          [] s = "failed"    -> {}
          [] s = "skipped"   -> {}]

\* A mutated table: the terminal state `failed` may be retried.
TransitionsOfRetry(status) ==
    IF status = "failed" THEN {"pending", "copying"}
    ELSE IF status \in VALID_STATUSES THEN VALID_TRANSITIONS[status] ELSE {}

\* VALID_TRANSITIONS.get(self.status, set())
TransitionsOf(status) ==
    IF status \in VALID_STATUSES THEN VALID_TRANSITIONS[status] ELSE {}

\* _validate: TRUE when no ValueError is raised.
Validate(o) ==
    /\ o.destination_path # None
    /\ o.status \in VALID_STATUSES
    /\ (o.status = "completed" =>
            /\ ~Falsy(o.checksum_source) /\ ~Falsy(o.checksum_dest)
            /\ o.checksum_source = o.checksum_dest)
    /\ (o.status = "failed" => ~Falsy(o.error_message))

can_transition_to(o, new_status) ==
    /\ new_status \in VALID_STATUSES
    /\ new_status \in TransitionsOf(o.status)

\* transition_to: the operation after the call and whether the call raised.
\* The status (and the message) are assigned before _validate runs, and
\* nothing restores them when _validate raises.
transition_to(o, new_status, error_message) ==
    IF ~can_transition_to(o, new_status)
    THEN [op |-> o, raised |-> TRUE]
    ELSE LET o1 == [o EXCEPT !.status = new_status]
             o2 == IF new_status = "failed" /\ ~Falsy(error_message)
                   THEN [o1 EXCEPT !.error_message = error_message]
                   ELSE o1
         IN  [op |-> o2, raised |-> ~Validate(o2)]

is_terminal(o) == o.status \in {"completed", "failed", "skipped"}

is_successful(o) == o.status = "completed"

(***************************************************************************)
(* The plan and the filesystem                                             *)
(***************************************************************************)
\* Number of files of a plan.
NumFiles == 2

Files == 1 .. NumFiles

Folders == {"01.2024", "02.2024"}

\* A filename is the sequence of its dot-separated segments: a.jpg is <<"a", "jpg">>.
Names == {<<"a", "jpg">>, <<"b", "jpg">>}

RECURSIVE JoinDots(_)
JoinDots(segs) ==
    IF Len(segs) = 0 THEN ""
    ELSE IF Len(segs) = 1 THEN segs[1]
    ELSE segs[1] \o "." \o JoinDots(Tail(segs))

\* os.path.join(target_folder, filename)
PathJoin(folder, name) == folder \o "/" \o name

\* Content of the source file f, of a corrupted copy of it, and of a file that
\* was in a target folder before the run.
ContentOf(f) == f

CorruptOf(f) == 0 - f

ForeignContent == 0

\* The content hash the mover compares (injective on contents).
Hash(content) == "h" \o ToString(content)

\* The checksum value recorded when verification is skipped.
UnverifiedSentinel == "unverified"

\* The file that is written to path with the given content.
Written(fs, path, content) == (path :> content) @@ fs

(***************************************************************************)
(* MediaFile (models/media_file.py) as FileScanner builds it               *)
(***************************************************************************)
\* A file of a configured type: is_media, error=None.
Scanned == [is_media |-> TRUE, error |-> None]

\* The MediaFile objects _create_media_file returns: the file of a
\* configured type, the file of another type, and the file whose stat or
\* validation raised (is_media=False, error=str(e)).
MediaKinds ==
    {Scanned, [is_media |-> FALSE, error |-> None],
     [is_media |-> FALSE, error |-> "stat failed"]}

\* A mutated filter: every file is processed.
ShouldProcessAll(m) == TRUE

\* MediaFile.should_process
should_process(m) == m.is_media /\ m.error = None

(***************************************************************************)
(* Destination Resolver: FileMover._get_destination_path (spec.md 4.1)     *)
(***************************************************************************)
\* Safety bound of the increment probe.
ProbeLimit == 3

\* A mutated increment: the suffix goes in front of the first dot.
IncrementNameFirstDot(segs, n) ==
    [segs EXCEPT ![1] = segs[1] \o "_" \o ToString(n)]

\* stem_n.ext: the suffix goes in front of the last dot.
IncrementName(segs, n) ==
    LET k == IF Len(segs) = 1 THEN 1 ELSE Len(segs) - 1
    IN  [segs EXCEPT ![k] = segs[k] \o "_" \o ToString(n)]

TooManyDuplicates == "Too many duplicates"

\* A mutated resolver: the duplicate policy is not looked at.
GetDestinationPathIgnoresPolicy(segs, folder, dryRun, policy, fs) ==
    LET original == PathJoin(folder, JoinDots(segs))
        free == {n \in 1 .. ProbeLimit :
                    PathJoin(folder, JoinDots(IncrementName(segs, n))) \notin DOMAIN fs}
    IN  IF dryRun THEN original
        ELSE IF original \notin DOMAIN fs THEN original
        ELSE IF free = {} THEN TooManyDuplicates
        ELSE PathJoin(folder, JoinDots(IncrementName(segs,
                CHOOSE n \in free : \A m \in free : n <= m)))

\* A mutated resolver: the probe starts at 2.
GetDestinationPathSkipFirst(segs, folder, dryRun, policy, fs) ==
    LET original == PathJoin(folder, JoinDots(segs))
        free == {n \in 2 .. ProbeLimit :
                    PathJoin(folder, JoinDots(IncrementName(segs, n))) \notin DOMAIN fs}
    IN  IF dryRun \/ policy # "increment" THEN original
        ELSE IF original \notin DOMAIN fs THEN original
        ELSE IF free = {} THEN TooManyDuplicates
        ELSE PathJoin(folder, JoinDots(IncrementName(segs,
                CHOOSE n \in free : \A m \in free : n <= m)))

\* A mutated resolver: when the probe gives up the original name is returned.
GetDestinationPathCollides(segs, folder, dryRun, policy, fs) ==
    LET original == PathJoin(folder, JoinDots(segs))
        free == {n \in 1 .. ProbeLimit :
                    PathJoin(folder, JoinDots(IncrementName(segs, n))) \notin DOMAIN fs}
    IN  IF dryRun \/ policy # "increment" THEN original
        ELSE IF original \notin DOMAIN fs THEN original
        ELSE IF free = {} THEN original
        ELSE PathJoin(folder, JoinDots(IncrementName(segs,
                CHOOSE n \in free : \A m \in free : n <= m)))

\* A mutated resolver: the dry_run argument is not looked at.
GetDestinationPathIgnoresDryRun(segs, folder, dryRun, policy, fs) ==
    LET original == PathJoin(folder, JoinDots(segs))
        free == {n \in 1 .. ProbeLimit :
                    PathJoin(folder, JoinDots(IncrementName(segs, n))) \notin DOMAIN fs}
    IN  IF policy # "increment" THEN original
        ELSE IF original \notin DOMAIN fs THEN original
        ELSE IF free = {} THEN TooManyDuplicates
        ELSE PathJoin(folder, JoinDots(IncrementName(segs,
                CHOOSE n \in free : \A m \in free : n <= m)))

\* The destination path, or TooManyDuplicates when the probe gives up.
GetDestinationPath(segs, folder, dryRun, policy, fs) ==
    LET original == PathJoin(folder, JoinDots(segs))
        free == {n \in 1 .. ProbeLimit :
                    PathJoin(folder, JoinDots(IncrementName(segs, n))) \notin DOMAIN fs}
    IN  IF dryRun \/ policy # "increment" THEN original
        ELSE IF original \notin DOMAIN fs THEN original
        ELSE IF free = {} THEN TooManyDuplicates
        ELSE PathJoin(folder, JoinDots(IncrementName(segs,
                CHOOSE n \in free : \A m \in free : n <= m)))

\* The names the probe of segs looks at in folder: the original and every
\* increment up to the safety bound.
Probed(segs, folder) ==
    {PathJoin(folder, JoinDots(segs))}
        \cup {PathJoin(folder, JoinDots(IncrementName(segs, n))) : n \in 1 .. ProbeLimit}

\* FileOperation(source_file, destination_path, 'pending', None, None, None, now, 0)
PendingOperation(f, path) ==
    [source_file |-> f, destination_path |-> path, status |-> "pending",
     error_message |-> None, checksum_source |-> None, checksum_dest |-> None]

(***************************************************************************)
(* Configuration (models/configuration.py) and the snapshot organize keeps *)
(***************************************************************************)
ConfigurationFields ==
    {"version", "default_source", "file_types", "process_all_files", "date_format",
     "recursive", "dry_run_default", "create_log", "log_path", "verify_checksum",
     "batch_size", "parallel_scan", "confirm_large_operations", "duplicate_handling"}

\* The keys of config_snapshot (organize.py).
SnapshotKeys ==
    {"version", "file_types", "process_all_files", "date_format", "recursive",
     "dry_run_default", "verify_checksum", "duplicate_handling"}

\* Configuration(**snapshot): the dataclass has no defaults, so every field
\* is required and no other keyword is accepted; otherwise TypeError.
ConfigurationAccepts(keys) == keys = ConfigurationFields

(***************************************************************************)
(* The command line of organize                                            *)
(***************************************************************************)
\* The flags a token sets under click's parser: -rd is -r -d.
ClickFlags(token) ==
    CASE token = "--dry-run" -> {"dry_run"}
      [] token = "-d"        -> {"dry_run"}
      [] token = "-rd"       -> {"recursive", "dry_run"}
      [] OTHER               -> {}

\* The dry_run parameter click hands to organize().
ClickDryRun(args) == \E t \in args : "dry_run" \in ClickFlags(t)

\* '--dry-run' in sys.argv or '-d' in sys.argv
ArgvDryRun(argv) == "--dry-run" \in argv \/ "-d" \in argv

ArgLists == {{}, {"--dry-run"}, {"-d"}, {"-rd"}}

\* From a shell sys.argv holds the arguments; invoked programmatically
\* (click's CliRunner, as the tests do) it holds the host's own arguments.
Invocations ==
    {[args |-> a, argv |-> a] : a \in ArgLists}
        \cup {[args |-> {"--dry-run"}, argv |-> {}]}

(***************************************************************************)
(* Resume Store: ResumeManager (spec.md 4.3)                               *)
(***************************************************************************)
NoRecord == [exists |-> FALSE, keys |-> {}, config |-> None,
             completed |-> <<>>, pending |-> <<>>]

create_resume_point(keys, config) ==
    [exists |-> TRUE, keys |-> keys, config |-> config,
     completed |-> <<>>, pending |-> <<>>]

\* update_resume_point(resume_data, completed_operation=..., pending_operations=...):
\* the completed operation, when one is passed, is appended to the completed
\* list, the pending list is replaced, and the whole record is rewritten.
\* completed_operation is a sequence of at most one operation (<<>>: not passed).
update_resume_point(rec, completed_operation, pending_operations) ==
    [rec EXCEPT !.completed = @ \o completed_operation,
                !.pending   = pending_operations]

can_resume_operation(rec) == rec.exists /\ Len(rec.pending) > 0

(***************************************************************************)
(* Verified Mover: FileMover.move_file (spec.md 4.2), one step at a time   *)
(***************************************************************************)
Running == {"start", "scan", "plan", "persist", "mv_begin", "mv_copy", "mv_verify",
            "mv_delete", "mv_complete", "update", "progress", "finish"}

InMove == {"mv_begin", "mv_copy", "mv_verify", "mv_delete", "mv_complete"}

\* Index in ops of the operation move_file is working on.
Cur == IF cmd = "move_files" THEN Len(ops) ELSE idx

SetOp(o) == ops' = [ops EXCEPT ![Cur] = o]

\* move_file returns to its caller.
ReturnFromMove ==
    IF cmd = "move_files"
    THEN pc' = "mf_next" /\ idx' = idx + 1
    ELSE pc' = "update" /\ idx' = idx

\* A ValueError out of transition_to is not handled by the mover: the
\* command's `except Exception` ends it with exit code 1.
Abort ==
    /\ pc' = "exited"
    /\ exitCode' = 1
    /\ idx' = idx

fsVars == <<srcExists, dst, dirs>>

planVars == <<inv, cfg, dry_run, fileName, fileFolder, sourceDir, dst0, resolved, media>>

\* Step 1: transition to `copying`.
MvBegin ==
    /\ pc = "mv_begin"
    /\ LET r == transition_to(ops[Cur], "copying", None) IN
        /\ SetOp(r.op)
        /\ calls' = [calls EXCEPT ![ops[Cur].source_file] = @ + 1]
        /\ IF r.raised THEN Abort
           ELSE pc' = "mv_copy" /\ idx' = idx /\ exitCode' = exitCode
    /\ UNCHANGED <<opVars, planVars, fsVars, cmd, record, died, writeError>>

\* A mutated copy: an error of the copy ends the whole command.
MvCopyErrorEndsRun ==
    /\ pc = "mv_copy"
    /\ LET o == ops[Cur]
           f == o.source_file
       IN \E outcome \in {"ok", "corrupt", "error"} :
            IF outcome = "error" \/ ~srcExists[f]
            THEN /\ SetOp(transition_to(o, "failed", "copy failed").op)
                 /\ Abort
                 /\ UNCHANGED fsVars
            ELSE /\ dst' = Written(dst, o.destination_path,
                                   IF outcome = "ok" THEN ContentOf(f) ELSE CorruptOf(f))
                 /\ dirs' = dirs \cup {fileFolder[f]}
                 /\ pc' = "mv_verify" /\ idx' = idx /\ exitCode' = exitCode
                 /\ UNCHANGED <<srcExists, ops>>
    /\ UNCHANGED <<opVars, planVars, cmd, record, calls, died, writeError>>

\* Step 1, the copy: it succeeds, writes wrong bytes without an error, or
\* raises (no source, permission denied, disk full).
MvCopy ==
    /\ pc = "mv_copy"
    /\ LET o == ops[Cur]
           f == o.source_file
       IN \E outcome \in {"ok", "corrupt", "error"} :
            IF outcome = "error" \/ ~srcExists[f]
            THEN /\ SetOp(transition_to(o, "failed", "copy failed").op)
                 /\ ReturnFromMove
                 /\ UNCHANGED fsVars
            ELSE /\ dst' = Written(dst, o.destination_path,
                                   IF outcome = "ok" THEN ContentOf(f) ELSE CorruptOf(f))
                 /\ dirs' = dirs \cup {fileFolder[f]}
                 /\ pc' = "mv_verify" /\ idx' = idx
                 /\ UNCHANGED <<srcExists, ops>>
    /\ UNCHANGED <<opVars, planVars, cmd, record, exitCode, calls, died, writeError>>

\* A mutated step 2: move_file returns with the operation in `verifying`.
MvVerifyReturnsEarly ==
    /\ pc = "mv_verify"
    /\ SetOp(transition_to(ops[Cur], "verifying", None).op)
    /\ ReturnFromMove
    /\ UNCHANGED <<opVars, planVars, fsVars, cmd, record, exitCode, calls, died, writeError>>

\* A mutated step 2: the hashes are never compared.
MvVerifyNoCompare ==
    /\ pc = "mv_verify"
    /\ SetOp(transition_to(ops[Cur], "verifying", None).op)
    /\ pc' = "mv_delete" /\ idx' = idx
    /\ UNCHANGED <<opVars, planVars, fsVars, cmd, record, exitCode, calls, died, writeError>>

\* Step 2, under verify_checksum only: transition to `verifying`; the two
\* hashes are compared and a mismatch fails the operation, the source kept.
\* Without verification the operation goes on to step 3 in `copying`.
MvVerify ==
    /\ pc = "mv_verify"
    /\ LET o == ops[Cur]
           f == o.source_file
           v == transition_to(o, "verifying", None).op
           same == Hash(ContentOf(f)) = Hash(dst[o.destination_path])
       IN IF ~cfg.verify_checksum
          THEN /\ ops' = ops
               /\ pc' = "mv_delete" /\ idx' = idx
          ELSE IF ~same
          THEN /\ SetOp(transition_to(v, "failed", "checksum mismatch").op)
               /\ ReturnFromMove
          ELSE /\ SetOp(v)
               /\ pc' = "mv_delete" /\ idx' = idx
    /\ UNCHANGED <<opVars, planVars, fsVars, cmd, record, exitCode, calls, died, writeError>>

\* Step 3, the delete: the source is removed, or the removal raises.
MvDelete ==
    /\ pc = "mv_delete"
    /\ LET o == ops[Cur]
           f == o.source_file
       IN \E outcome \in {"ok", "error"} :
            IF outcome = "error"
            THEN /\ SetOp(transition_to(o, "failed", "delete failed").op)
                 /\ ReturnFromMove
                 /\ UNCHANGED fsVars
            ELSE /\ srcExists' = [srcExists EXCEPT ![f] = FALSE]
                 /\ pc' = "mv_complete" /\ idx' = idx
                 /\ UNCHANGED <<dst, dirs, ops>>
    /\ UNCHANGED <<opVars, planVars, cmd, record, exitCode, calls, died, writeError>>

\* Step 3, the end: the checksums, or the sentinel, are recorded and
\* transition_to('completed') is called; from `copying` it raises.
MvComplete ==
    /\ pc = "mv_complete"
    /\ LET o == ops[Cur]
           sum == IF cfg.verify_checksum THEN Hash(ContentOf(o.source_file))
                  ELSE UnverifiedSentinel
           c == [o EXCEPT !.checksum_source = sum, !.checksum_dest = sum]
           r == transition_to(c, "completed", None)
       IN /\ SetOp(r.op)
          /\ IF r.raised THEN Abort
             ELSE ReturnFromMove /\ exitCode' = exitCode
    /\ UNCHANGED <<opVars, planVars, fsVars, cmd, record, calls, died, writeError>>

(***************************************************************************)
(* SpecOp: a FileOperation is constructed (the dataclass runs _validate in *)
(* __post_init__) and then receives any sequence of transition_to calls.   *)
(***************************************************************************)
Messages == {None, "", "disk full"}

Checksums == {None, "", "h1", "h2"}

NewStatusArgs == VALID_STATUSES \cup {"bogus"}

OpFields ==
    [source_file : {1}, destination_path : {"t/a.jpg"},
     status : VALID_STATUSES, error_message : Messages,
     checksum_source : Checksums, checksum_dest : Checksums]

NoCall == [new_status |-> None, error_message |-> None]

\* The values the variables of the commands keep under SpecOp.
RunIdle ==
    /\ cmd = "none" /\ pc = "idle"
    /\ inv = [args |-> {}, argv |-> {}]
    /\ cfg = [dry_run_default |-> FALSE, verify_checksum |-> TRUE,
              duplicate_handling |-> "increment"]
    /\ dry_run = FALSE
    /\ fileName = [f \in Files |-> <<"a", "jpg">>]
    /\ fileFolder = [f \in Files |-> "01.2024"]
    /\ sourceDir = TRUE
    /\ srcExists = [f \in Files |-> TRUE]
    /\ dst = <<>>
    /\ dst0 = dst
    /\ dirs = {}
    /\ ops = <<>>
    /\ idx = 1
    /\ record = NoRecord
    /\ exitCode = 0
    /\ calls = [f \in Files |-> 0]
    /\ died = NotDied
    /\ writeError = FALSE
    /\ resolved = None
    /\ media = [f \in Files |-> Scanned]

OpInit ==
    /\ fo \in {o \in OpFields : Validate(o)}
    /\ foBefore = fo
    /\ foArg = NoCall
    /\ foRaised = FALSE
    /\ RunIdle

OpTransitionTo ==
    \E new_status \in NewStatusArgs, error_message \in Messages :
        LET r == transition_to(fo, new_status, error_message) IN
        /\ fo' = r.op
        /\ foBefore' = fo
        /\ foArg' = [new_status |-> new_status, error_message |-> error_message]
        /\ foRaised' = r.raised
        /\ UNCHANGED runVars

OpNext == OpTransitionTo

SpecOp == OpInit /\ [][OpNext]_vars

(***************************************************************************)
(* Initial states of the commands                                          *)
(***************************************************************************)
\* The values the variables of SpecOp keep under the other specifications.
OpIdle ==
    /\ fo = PendingOperation(1, "t/a.jpg")
    /\ foBefore = fo
    /\ foArg = NoCall
    /\ foRaised = FALSE

\* The plan lists the files folder by folder (organization.items()), so the
\* files of one folder are adjacent; files are numbered in plan order.
Grouped(folderOf) ==
    \A i, j, k \in Files : i < j /\ j < k /\ folderOf[i] = folderOf[k] => folderOf[j] = folderOf[i]

\* The folders that exist when the files of fs do (all candidates are in 01.2024).
InitialDirs(fs) == IF DOMAIN fs = {} THEN {} ELSE {"01.2024"}

\* Files that may be in the target folders before a run of move_files, and
\* before a run of organize.
PreExisting == {PathJoin("01.2024", "a.jpg"), PathJoin("01.2024", "a_1.jpg")}

PreExistingOrganize == {PathJoin("01.2024", "a.jpg")}

Policies == {"increment", "overwrite"}

\* Configuration.VALID_DUPLICATE_HANDLING
VALID_DUPLICATE_HANDLING == {"increment", "skip", "overwrite"}

PlanInit(candidates) ==
    /\ fileName \in [Files -> Names]
    /\ fileFolder \in {g \in [Files -> Folders] : Grouped(g)}
    /\ sourceDir = TRUE
    /\ srcExists = [f \in Files |-> TRUE]
    /\ \E present \in SUBSET candidates : dst = [p \in present |-> ForeignContent]
    /\ dst0 = dst
    /\ dirs = InitialDirs(dst)
    /\ ops = <<>>
    /\ idx = 1
    /\ exitCode = 0
    /\ calls = [f \in Files |-> 0]
    /\ died = NotDied
    /\ writeError = FALSE
    /\ resolved = None
    /\ media = [f \in Files |-> Scanned]

Init ==
    /\ OpIdle
    /\ cmd = "organize" /\ pc = "start"
    /\ inv \in Invocations
    /\ cfg \in [dry_run_default : {TRUE}, verify_checksum : BOOLEAN,
                duplicate_handling : VALID_DUPLICATE_HANDLING]
    /\ dry_run = FALSE
    /\ record = NoRecord
    /\ PlanInit(PreExistingOrganize)

(***************************************************************************)
(* The organize command (cli/commands/organize.py)                         *)
(***************************************************************************)
Exit(code) == pc' = "exited" /\ exitCode' = code

\* The exit code of the process for a command callback that returned rv.
\* The commands are run through the click group in standalone mode (cli() in
\* main.py, sys.exit(cli()) in picsort_entry.py; click's CliRunner does the
\* same): click discards the value the callback returns and leaves through
\* ctx.exit(), that is with 0. No command calls sys.exit or ctx.exit itself.
StandaloneExitCode(rv) == 0

\* Lines 98-191: the configuration is merged, dry_run_default being taken
\* from sys.argv, and a non-dry run creates its resume point.
OrgStart ==
    /\ cmd = "organize" /\ pc = "start"
    /\ LET final_config == [cfg EXCEPT !.dry_run_default = ArgvDryRun(inv.argv)] IN
        /\ cfg' = final_config
        /\ record' = IF ~final_config.dry_run_default
                     THEN create_resume_point(SnapshotKeys, final_config)
                     ELSE record
    /\ pc' = "scan"
    /\ UNCHANGED <<opVars, cmd, inv, dry_run, fileName, fileFolder, sourceDir, dst0, resolved,
                   media, fsVars,
                   ops, idx, exitCode, calls, died, writeError>>

\* Lines 43-57 of file_scanner.py: scan returns one MediaFile for every
\* file that is in the source directory, in directory order.
MediaFiles == SelectSeq([f \in Files |-> f], LAMBDA f : srcExists[f])

\* Line 231: processable_files, in the order of the scan.
Processable == SelectSeq(MediaFiles, LAMBDA f : should_process(media[f]))

\* Lines 197-320: scan and filter; an empty scan returns 0 at line 228;
\* with nothing to process the resume point is removed and 0 returned;
\* grouping, and the dry-run branch, which previews and returns 0.
OrgScan ==
    /\ cmd = "organize" /\ pc = "scan"
    /\ IF MediaFiles = <<>> THEN Exit(0) /\ record' = record
       ELSE IF Processable = <<>> THEN Exit(0) /\ record' = NoRecord
       ELSE IF cfg.dry_run_default THEN Exit(0) /\ record' = record
       ELSE pc' = "plan" /\ exitCode' = exitCode /\ record' = record
    /\ UNCHANGED <<opVars, planVars, fsVars, cmd, ops, idx, calls, died, writeError>>

\* Lines 334-352: every destination is resolved and every FileOperation is
\* built before the first file is moved.
OrgPlan ==
    /\ cmd = "organize" /\ pc = "plan"
    /\ LET dest(f) == GetDestinationPath(fileName[f], fileFolder[f], FALSE,
                                         cfg.duplicate_handling, dst)
       IN IF \E k \in DOMAIN Processable : dest(Processable[k]) = TooManyDuplicates
          THEN Exit(1) /\ ops' = ops
          ELSE /\ ops' = [k \in DOMAIN Processable |->
                            PendingOperation(Processable[k], dest(Processable[k]))]
               /\ pc' = "persist" /\ exitCode' = exitCode
    /\ UNCHANGED <<opVars, planVars, fsVars, cmd, idx, record, calls, died, writeError>>

\* Lines 354-359: the plan is written to the resume record.
OrgPersist ==
    /\ cmd = "organize" /\ pc = "persist"
    /\ record' = update_resume_point(record, <<>>, ops)
    /\ pc' = "mv_begin" /\ idx' = 1
    /\ UNCHANGED <<opVars, planVars, fsVars, cmd, ops, exitCode, calls, died, writeError>>

\* A mutated loop body: the record is not rewritten after the move.
OrgUpdateNoWrite ==
    /\ cmd = "organize" /\ pc = "update"
    /\ pc' = "progress"
    /\ UNCHANGED <<opVars, planVars, fsVars, cmd, ops, idx, record, exitCode, calls, died,
                   writeError>>

\* A mutated loop body: a failed write of the record is passed over and
\* the loop goes on.
OrgUpdateSwallowsError ==
    /\ cmd = "organize" /\ pc = "update"
    /\ \E written \in BOOLEAN :
        /\ record' = IF written
                     THEN update_resume_point(record, <<ops[idx]>>,
                                              SubSeq(ops, idx + 1, Len(ops)))
                     ELSE record
        /\ writeError' = ~written
    /\ pc' = "progress"
    /\ UNCHANGED <<opVars, planVars, fsVars, cmd, ops, idx, exitCode, calls, died>>

\* Lines 365-374: after move_file returned, the record is rewritten with the
\* returned operation appended to completed and the later ones pending. An
\* exception of that write leaves the loop (only KeyboardInterrupt is caught
\* there), is re-raised at 417-422 and ends the command at 483-495 with 1.
OrgUpdate ==
    /\ cmd = "organize" /\ pc = "update"
    /\ \E written \in BOOLEAN :
        IF written
        THEN /\ record' = update_resume_point(record, <<ops[idx]>>,
                                              SubSeq(ops, idx + 1, Len(ops)))
             /\ pc' = "progress"
             /\ UNCHANGED <<exitCode, writeError>>
        ELSE /\ Exit(1)
             /\ writeError' = TRUE
             /\ record' = record
    /\ UNCHANGED <<opVars, planVars, fsVars, cmd, ops, idx, calls, died>>

\* Lines 376-387 and the loop head: progress is reported, still inside the
\* per-file try block, and the loop goes on to the next operation.
OrgProgress ==
    /\ cmd = "organize" /\ pc = "progress"
    /\ idx' = idx + 1
    /\ pc' = IF idx = Len(ops) THEN "finish" ELSE "mv_begin"
    /\ UNCHANGED <<opVars, planVars, fsVars, cmd, ops, record, exitCode, calls, died, writeError>>

\* A mutated end of the run: the record is removed whatever the outcome.
OrgFinishAlwaysCleans ==
    /\ cmd = "organize" /\ pc = "finish"
    /\ LET failed_count == Cardinality({k \in DOMAIN ops : ops[k].status = "failed"}) IN
        /\ record' = NoRecord
        /\ Exit(IF failed_count > 0 THEN 1 ELSE 0)
    /\ UNCHANGED <<opVars, planVars, fsVars, cmd, ops, idx, calls, died, writeError>>

\* Lines 401-468: the record is removed when nothing failed; exit code.
OrgFinish ==
    /\ cmd = "organize" /\ pc = "finish"
    /\ LET failed_count == Cardinality({k \in DOMAIN ops : ops[k].status = "failed"}) IN
        /\ record' = IF failed_count = 0 THEN NoRecord ELSE record
        /\ Exit(IF failed_count > 0 THEN 1 ELSE 0)
    /\ UNCHANGED <<opVars, planVars, fsVars, cmd, ops, idx, calls, died, writeError>>

\* Lines 389-399 and 470-481: a KeyboardInterrupt anywhere in the body of the
\* per-file loop; the operations from the current one on are saved as pending
\* and the command ends with 130.
OrgInterrupt ==
    /\ cmd = "organize" /\ pc \in InMove \cup {"update", "progress"}
    /\ record' = update_resume_point(record, <<>>, SubSeq(ops, idx, Len(ops)))
    /\ Exit(130)
    /\ UNCHANGED <<opVars, planVars, fsVars, cmd, ops, idx, calls, died, writeError>>

\* The process dies (kill -9, power loss): nothing more is written.
OrgDie ==
    /\ cmd = "organize" /\ pc \in Running
    /\ pc' = "dead"
    /\ died' = pc
    /\ UNCHANGED <<opVars, planVars, fsVars, cmd, ops, idx, record, exitCode, calls,
                   writeError>>

(***************************************************************************)
(* The resume command (cli/commands/resume.py)                             *)
(***************************************************************************)
\* A mutated rebuild: the pending operations come back in reverse order.
CreatePendingOperationsReversed(rec) ==
    [k \in DOMAIN rec.pending |->
        PendingOperation(rec.pending[Len(rec.pending) + 1 - k].source_file,
                         rec.pending[Len(rec.pending) + 1 - k].destination_path)]

\* create_pending_operations(resume_data): the pending operations of the
\* record, to be executed as they are stored.
create_pending_operations(rec) ==
    [k \in DOMAIN rec.pending |->
        PendingOperation(rec.pending[k].source_file, rec.pending[k].destination_path)]

\* validate_resume_data(resume_data)['valid']: the source path exists and is
\* a directory, and the configuration snapshot parses.
validate_resume_data(rec, dirOk) == dirOk /\ ConfigurationAccepts(rec.keys)

\* The --validate option as click parses it.
ClickValidate(args) == "--validate" \in args \/ "-v" \in args

ResumeInvocations ==
    {[args |-> a, argv |-> a] : a \in {{}, {"--validate"}}}

\* The command is started for the operation id of the organize run that ended.
ResumeStart ==
    /\ cmd = "organize" /\ pc \in {"dead", "exited"}
    /\ cmd' = "resume" /\ pc' = "r_load"
    /\ ops' = <<>>
    /\ idx' = 1
    /\ writeError' = FALSE
    /\ UNCHANGED <<opVars, planVars, fsVars, record, exitCode, calls, died>>

\* A mutated load: the record is not asked whether it can be resumed, and
\* the operations of both of its lists are executed again.
ResumeLoadReplaysAll ==
    /\ cmd = "resume" /\ pc = "r_load"
    /\ IF ~record.exists \/ Len(record.completed \o record.pending) = 0
            \/ ~ConfigurationAccepts(record.keys)
       THEN Exit(1) /\ UNCHANGED <<cfg, ops, record>>
       ELSE /\ cfg' = record.config
            /\ ops' = [k \in 1 .. Len(record.completed \o record.pending) |->
                          PendingOperation((record.completed \o record.pending)[k].source_file,
                                           (record.completed \o record.pending)[k].destination_path)]
            /\ pc' = "mv_begin" /\ exitCode' = exitCode
            /\ record' = record
    /\ UNCHANGED <<opVars, cmd, inv, dry_run, fileName, fileFolder, sourceDir, dst0, resolved,
                   media, fsVars,
                   idx, calls, died, writeError>>

\* Lines 124-199: load_resume_data; --validate validates and returns;
\* can_resume_operation; Configuration(**config_snapshot), whose TypeError
\* is caught at line 259; create_pending_operations.
ResumeLoad ==
    /\ cmd = "resume" /\ pc = "r_load"
    /\ IF ~record.exists THEN Exit(1) /\ UNCHANGED <<cfg, ops, record>>
       ELSE IF ClickValidate(inv.args)
       THEN /\ Exit(IF validate_resume_data(record, sourceDir) THEN 0 ELSE 1)
            /\ UNCHANGED <<cfg, ops, record>>
       ELSE IF ~can_resume_operation(record) THEN Exit(1) /\ UNCHANGED <<cfg, ops, record>>
       ELSE IF ~ConfigurationAccepts(record.keys) THEN Exit(1) /\ UNCHANGED <<cfg, ops, record>>
       ELSE LET pending_operations == create_pending_operations(record) IN
            IF Len(pending_operations) = 0
            THEN Exit(0) /\ record' = NoRecord /\ UNCHANGED <<cfg, ops>>
            ELSE /\ cfg' = record.config
                 /\ ops' = pending_operations
                 /\ pc' = "mv_begin" /\ exitCode' = exitCode
                 /\ record' = record
    /\ UNCHANGED <<opVars, cmd, inv, dry_run, fileName, fileFolder, sourceDir, dst0, resolved,
                   media, fsVars,
                   idx, calls, died, writeError>>

\* Lines 207-215: after move_file returned, the record is rewritten with the
\* returned operation appended to completed and the remaining ones pending.
\* An exception of that write is caught at 236-240, which returns 1.
ResumeUpdate ==
    /\ cmd = "resume" /\ pc = "update"
    /\ \E written \in BOOLEAN :
        IF written
        THEN /\ record' = update_resume_point(record, <<ops[idx]>>,
                                              SubSeq(ops, idx + 1, Len(ops)))
             /\ pc' = "progress"
             /\ UNCHANGED <<exitCode, writeError>>
        ELSE /\ Exit(1)
             /\ writeError' = TRUE
             /\ record' = record
    /\ UNCHANGED <<opVars, planVars, fsVars, cmd, ops, idx, calls, died>>

\* Lines 217-228 and the loop head.
ResumeProgress ==
    /\ cmd = "resume" /\ pc = "progress"
    /\ idx' = idx + 1
    /\ pc' = IF idx = Len(ops) THEN "finish" ELSE "mv_begin"
    /\ UNCHANGED <<opVars, planVars, fsVars, cmd, ops, record, exitCode, calls, died, writeError>>

\* Lines 242-257: the record is removed whatever the results; exit code.
ResumeFinish ==
    /\ cmd = "resume" /\ pc = "finish"
    /\ LET failed_count == Cardinality({k \in DOMAIN ops : ops[k].status = "failed"}) IN
        /\ record' = NoRecord
        /\ Exit(IF failed_count > 0 THEN 1 ELSE 0)
    /\ UNCHANGED <<opVars, planVars, fsVars, cmd, ops, idx, calls, died, writeError>>

\* Lines 230-234: a KeyboardInterrupt anywhere in the loop ends the command
\* with 130; the handler writes nothing.
ResumeInterrupt ==
    /\ cmd = "resume" /\ pc \in InMove \cup {"update", "progress"}
    /\ Exit(130)
    /\ UNCHANGED <<opVars, planVars, fsVars, cmd, ops, idx, record, calls, died, writeError>>

(***************************************************************************)
(* The resume command started on a record found on disk: the record of an  *)
(* organize run over the plan that stopped after `done` files, written by  *)
(* this or by another writer of the store (config_snapshot with the keys   *)
(* organize writes, or with every field of Configuration).                 *)
(***************************************************************************)
ResumeConfigs ==
    [dry_run_default : {FALSE}, verify_checksum : BOOLEAN, duplicate_handling : Policies]

\* The operation of a file whose move completed under config.
CompletedOperation(f, path, config) ==
    LET sum == IF config.verify_checksum THEN Hash(ContentOf(f)) ELSE UnverifiedSentinel
    IN  [PendingOperation(f, path) EXCEPT !.status = "completed",
                                          !.checksum_source = sum, !.checksum_dest = sum]

ResumeInit ==
    /\ OpIdle
    /\ cmd = "resume" /\ pc = "r_load"
    /\ inv \in ResumeInvocations
    /\ dry_run = FALSE
    /\ fileName \in [Files -> Names]
    /\ fileFolder \in {g \in [Files -> Folders] : Grouped(g)}
    /\ sourceDir \in BOOLEAN
    /\ \E done \in 0 .. NumFiles, keys \in {SnapshotKeys, ConfigurationFields},
          config \in ResumeConfigs :
        LET dest(f) == GetDestinationPath(fileName[f], fileFolder[f], FALSE,
                                          config.duplicate_handling, <<>>)
            last(p) == CHOOSE f \in 1 .. done :
                            dest(f) = p /\ \A g \in 1 .. done : dest(g) = p => g <= f
        IN /\ cfg = config
           /\ srcExists = [f \in Files |-> sourceDir /\ f > done]
           /\ dst = [p \in {dest(f) : f \in 1 .. done} |-> ContentOf(last(p))]
           /\ record = [exists |-> TRUE, keys |-> keys, config |-> config,
                        completed |-> [f \in 1 .. done |->
                                          CompletedOperation(f, dest(f), config)],
                        pending |-> [k \in 1 .. NumFiles - done |->
                                          PendingOperation(done + k, dest(done + k))]]
    /\ dst0 = dst
    /\ dirs = {fileFolder[record.completed[k].source_file] : k \in DOMAIN record.completed}
    /\ ops = <<>>
    /\ idx = 1
    /\ exitCode = 0
    /\ calls = [f \in Files |-> 0]
    /\ died = NotDied
    /\ writeError = FALSE
    /\ resolved = None
    /\ media = [f \in Files |-> Scanned]

Next ==
    \/ OrgStart \/ OrgScan \/ OrgPlan \/ OrgPersist
    \/ MvBegin \/ MvCopy \/ MvVerify \/ MvDelete \/ MvComplete
    \/ OrgUpdate \/ OrgProgress \/ OrgFinish \/ OrgInterrupt \/ OrgDie
    \/ ResumeStart \/ ResumeLoad \/ ResumeUpdate \/ ResumeProgress \/ ResumeFinish
    \/ ResumeInterrupt

Spec == (Init \/ ResumeInit) /\ [][Next]_vars

\* organize over an empty source directory, or over a scan that found
\* files of every kind: files of other types and files the scanner could
\* not read among the media files. The
\* target folder is empty, or holds a.jpg and every increment of it the
\* probe looks at.
ScanInit ==
    /\ OpIdle
    /\ cmd = "organize" /\ pc = "start"
    /\ inv \in Invocations
    /\ cfg = [dry_run_default |-> TRUE, verify_checksum |-> TRUE,
              duplicate_handling |-> "increment"]
    /\ dry_run = FALSE
    /\ record = NoRecord
    /\ fileName \in [Files -> Names]
    /\ fileFolder = [f \in Files |-> "01.2024"]
    /\ sourceDir = TRUE
    /\ \E inDir \in BOOLEAN : srcExists = [f \in Files |-> inDir]
    /\ \E present \in {{}, Probed(<<"a", "jpg">>, "01.2024")} :
            dst = [p \in present |-> ForeignContent]
    /\ dst0 = dst
    /\ dirs = InitialDirs(dst)
    /\ ops = <<>>
    /\ idx = 1
    /\ exitCode = 0
    /\ calls = [f \in Files |-> 0]
    /\ died = NotDied
    /\ writeError = FALSE
    /\ resolved = None
    /\ media \in IF \E f \in Files : srcExists[f]
                THEN [Files -> MediaKinds]
                ELSE {[f \in Files |-> Scanned]}

\* The steps of these runs: organize, and a resume after it up to the load
\* of the record, which Configuration(**config_snapshot) ends.
ScanNext ==
    \/ OrgStart \/ OrgScan \/ OrgPlan \/ OrgPersist
    \/ MvBegin \/ MvCopy \/ MvVerify \/ MvDelete \/ MvComplete
    \/ OrgUpdate \/ OrgProgress \/ OrgFinish \/ OrgInterrupt \/ OrgDie
    \/ ResumeStart \/ ResumeLoad

SpecScan == ScanInit /\ [][ScanNext]_vars

(***************************************************************************)
(* Move Orchestrator: FileMover.move_files (spec.md 4.4)                   *)
(***************************************************************************)
MoverInit ==
    /\ OpIdle
    /\ cmd = "move_files" /\ pc = "mf_next"
    /\ inv = [args |-> {}, argv |-> {}]
    /\ cfg \in [dry_run_default : {FALSE}, verify_checksum : BOOLEAN,
                duplicate_handling : Policies]
    /\ dry_run \in BOOLEAN
    /\ record = NoRecord
    /\ PlanInit(PreExisting)

\* A mutated orchestrator: the dry_run argument is not looked at.
MfNextIgnoresDryRun ==
    /\ cmd = "move_files" /\ pc = "mf_next" /\ idx <= NumFiles
    /\ LET f == idx
           path == GetDestinationPath(fileName[f], fileFolder[f], dry_run,
                                      cfg.duplicate_handling, dst)
       IN IF path = TooManyDuplicates
          THEN ops' = ops /\ idx' = idx + 1 /\ pc' = pc
          ELSE /\ ops' = Append(ops, PendingOperation(f, path))
               /\ idx' = idx /\ pc' = "mv_begin"
    /\ UNCHANGED <<opVars, planVars, fsVars, cmd, record, exitCode, calls, died, writeError>>

\* The next file of the plan: its destination is resolved against the
\* filesystem as it is now and its operation is built; a dry run marks the
\* operation skipped, otherwise move_file is entered.
MfNext ==
    /\ cmd = "move_files" /\ pc = "mf_next" /\ idx <= NumFiles
    /\ LET f == idx
           path == GetDestinationPath(fileName[f], fileFolder[f], dry_run,
                                      cfg.duplicate_handling, dst)
           o == PendingOperation(f, path)
       IN IF path = TooManyDuplicates
          THEN ops' = ops /\ idx' = idx + 1 /\ pc' = pc
          ELSE IF dry_run
          THEN /\ ops' = Append(ops, transition_to(o, "skipped", None).op)
               /\ idx' = idx + 1 /\ pc' = pc
          ELSE /\ ops' = Append(ops, o)
               /\ idx' = idx /\ pc' = "mv_begin"
    /\ UNCHANGED <<opVars, planVars, fsVars, cmd, record, exitCode, calls, died, writeError>>

\* move_files returns the operations.
MfReturn ==
    /\ cmd = "move_files" /\ pc = "mf_next" /\ idx > NumFiles
    /\ Exit(0)
    /\ UNCHANGED <<opVars, planVars, fsVars, cmd, ops, idx, record, calls, died, writeError>>

MoverNext ==
    \/ MfNext \/ MfReturn
    \/ MvBegin \/ MvCopy \/ MvVerify \/ MvDelete \/ MvComplete

SpecMover == MoverInit /\ [][MoverNext]_vars

(***************************************************************************)
(* One call of FileMover._get_destination_path (spec.md 4.1)               *)
(***************************************************************************)
\* The filenames resolved: one extension, none, several dots, and the names
\* 'test' + ext of the extension test.
ResolverNames ==
    {<<"photo", "jpg">>, <<"README">>, <<"my", "file", "txt">>, <<"test", "jpg">>,
     <<"test", "tar", "gz">>, <<"test">>}

ResolverPolicies == VALID_DUPLICATE_HANDLING

\* The target folder holds any subset of the probed names when the resolver
\* is called for file 1.
ResolverInit ==
    /\ OpIdle
    /\ cmd = "resolve" /\ pc = "call"
    /\ inv = [args |-> {}, argv |-> {}]
    /\ cfg \in [dry_run_default : {FALSE}, verify_checksum : {TRUE},
                duplicate_handling : ResolverPolicies]
    /\ dry_run \in BOOLEAN
    /\ \E segs \in ResolverNames : fileName = [f \in Files |-> segs]
    /\ fileFolder = [f \in Files |-> "01.2024"]
    /\ sourceDir = TRUE
    /\ srcExists = [f \in Files |-> TRUE]
    /\ \E present \in SUBSET Probed(fileName[1], fileFolder[1]) :
            dst = [p \in present |-> ForeignContent]
    /\ dst0 = dst
    /\ dirs = {"01.2024"}
    /\ ops = <<>>
    /\ idx = 1
    /\ record = NoRecord
    /\ exitCode = 0
    /\ calls = [f \in Files |-> 0]
    /\ died = NotDied
    /\ writeError = FALSE
    /\ resolved = None
    /\ media = [f \in Files |-> Scanned]

\* _get_destination_path(media_file, target_folder, dry_run) returns a path
\* or raises.
ResolveCall ==
    /\ cmd = "resolve" /\ pc = "call"
    /\ resolved' = GetDestinationPath(fileName[1], fileFolder[1], dry_run,
                                      cfg.duplicate_handling, dst)
    /\ pc' = IF resolved' = TooManyDuplicates THEN "raised" ELSE "returned"
    /\ UNCHANGED <<opVars, cmd, inv, cfg, dry_run, fileName, fileFolder, sourceDir, dst0,
                   media, fsVars, ops, idx, record, exitCode, calls, died, writeError>>

ResolverNext == ResolveCall

SpecResolver == ResolverInit /\ [][ResolverNext]_vars

(***************************************************************************)
(* Claims                                                                  *)
(***************************************************************************)
OperationOf(f) == {k \in DOMAIN ops : ops[k].source_file = f}

Stopped == pc = "exited" /\ cmd \in {"organize", "resume"}

\* C1: whenever an organize or resume run has stopped (normal end, per-file
\* failure, KeyboardInterrupt in the per-file loop), every planned file whose
\* FileOperation is not `completed` still has its source file on disk.
C1_NoDataLoss ==
    Stopped =>
        \A k \in DOMAIN ops :
            ops[k].status # "completed" => srcExists[ops[k].source_file]

\* C2: within one move the source is removed only after the destination was
\* written and, with verify_checksum, only after both checksums were found
\* equal; an operation that failed has its source still present.
C2_CopyVerifyDelete ==
    [][\A f \in Files :
          /\ (srcExists[f] /\ ~srcExists'[f]) =>
                \E k \in OperationOf(f) :
                    /\ ops[k].status = IF cfg.verify_checksum THEN "verifying" ELSE "copying"
                    /\ ops[k].destination_path \in DOMAIN dst
                    /\ (cfg.verify_checksum =>
                            Hash(dst[ops[k].destination_path]) = Hash(ContentOf(f)))
          /\ \A k \in DOMAIN ops' :
                (ops'[k].source_file = f /\ ops'[k].status = "failed") => srcExists'[f]
      ]_vars

\* C2 witness: a verified move has removed its source.
C2_Witness ==
    \E k \in DOMAIN ops :
        /\ cfg.verify_checksum
        /\ ops[k].status = "completed"
        /\ ~srcExists[ops[k].source_file]
        /\ \E j \in DOMAIN ops : ops[j].status = "failed" /\ ops[j].error_message = "checksum mismatch"

\* C3: in a non-dry-run organize run under the increment policy, two
\* FileOperations planned into the same target folder never have the same
\* destination path.
C3_DistinctDestinations ==
    (cmd = "organize" /\ cfg.duplicate_handling = "increment") =>
        \A j, k \in DOMAIN ops :
            (j # k /\ fileFolder[ops[j].source_file] = fileFolder[ops[k].source_file])
                => ops[j].destination_path # ops[k].destination_path

\* C4: k files with one name (distinct content) moved into one initially
\* empty target folder under the increment policy end as stem.ext, stem_1.ext,
\* ..., stem_(k-1).ext, all operations completed, every source removed, each
\* original content in exactly one destination.
C4_SameNameFilesAllKept ==
    (/\ cmd = "organize" /\ pc = "exited" /\ exitCode = 0
     /\ ~cfg.dry_run_default /\ cfg.verify_checksum
     /\ cfg.duplicate_handling = "increment"
     /\ DOMAIN dst0 = {}
     /\ \A f \in Files : fileName[f] = fileName[1] /\ fileFolder[f] = fileFolder[1])
    =>
    (/\ DOMAIN dst =
            {PathJoin(fileFolder[1], JoinDots(fileName[1]))}
              \cup {PathJoin(fileFolder[1], JoinDots(IncrementName(fileName[1], n))) :
                        n \in 1 .. NumFiles - 1}
     /\ \A k \in DOMAIN ops : ops[k].status = "completed"
     /\ \A f \in Files : ~srcExists[f]
     /\ \A f \in Files : Cardinality({p \in DOMAIN dst : dst[p] = ContentOf(f)}) = 1)

\* C5: a FileOperation whose status is `completed` has non-empty, equal
\* checksums, and a transition to `completed` with a missing or differing
\* checksum raises ValueError.
C5_CompletedHasChecksums ==
    /\ fo.status = "completed" =>
            /\ ~Falsy(fo.checksum_source) /\ ~Falsy(fo.checksum_dest)
            /\ fo.checksum_source = fo.checksum_dest
    /\ (/\ foArg.new_status = "completed"
        /\ (Falsy(foBefore.checksum_source) \/ Falsy(foBefore.checksum_dest)
                \/ foBefore.checksum_source # foBefore.checksum_dest))
        => foRaised

\* The transition relation as the claim states it.
ClaimedTransitions ==
    {<<"pending", "copying">>, <<"pending", "skipped">>, <<"pending", "failed">>,
     <<"copying", "verifying">>, <<"copying", "failed">>,
     <<"verifying", "completed">>, <<"verifying", "failed">>}

\* C6: every status change made by transition_to follows the transition
\* relation, and from completed, failed or skipped every transition_to call
\* raises ValueError and changes no field.
C6_TransitionRelation ==
    /\ fo.status # foBefore.status => <<foBefore.status, fo.status>> \in ClaimedTransitions
    /\ (foArg # NoCall /\ is_terminal(foBefore)) => (foRaised /\ fo = foBefore)

\* C6 witness: a call on a terminal operation raised, after a legal change.
C6_Witness ==
    /\ foArg.new_status = "copying"
    /\ foBefore.status = "failed"
    /\ foRaised

\* C7: status `failed` implies a present, non-empty error_message, in every
\* state reached by constructing a FileOperation and calling transition_to.
C7_FailedHasMessage == fo.status = "failed" => ~Falsy(fo.error_message)

\* C8: move_files with dry_run=True creates, copies, deletes and renames
\* nothing, creates no folder, and returns one operation per planned file,
\* each with status `skipped`.
C8_DryRunNoOp ==
    (cmd = "move_files" /\ dry_run) =>
        /\ dst = dst0
        /\ dirs = InitialDirs(dst0)
        /\ \A f \in Files : srcExists[f] /\ calls[f] = 0
        /\ \A k \in DOMAIN ops : ops[k].status = "skipped"
        /\ pc = "exited" =>
                /\ Len(ops) = NumFiles
                /\ \A f \in Files : ops[f].source_file = f

\* C8 witness: a dry run over a plan whose names collide with existing files
\* has returned.
C8_Witness ==
    /\ cmd = "move_files" /\ dry_run /\ pc = "exited"
    /\ Len(ops) = NumFiles
    /\ \E k \in DOMAIN ops : ops[k].destination_path \in DOMAIN dst0

\* C9: whenever click parses the dry-run option of organize as set, the run
\* takes the dry-run branch: no resume record, no operation executed, no file
\* moved.
C9_DryRunFlagHonoured ==
    (cmd = "organize" /\ ClickDryRun(inv.args)) =>
        /\ ~record.exists
        /\ ops = <<>>
        /\ dst = dst0
        /\ \A f \in Files : srcExists[f] /\ calls[f] = 0

\* C10: when the organize process has died between the end of a file's move
\* and the update_resume_point call that follows it, the resume record on
\* disk, from which the run is resumed, lists as pending no file that was
\* already moved, and lists every file that was neither moved nor recorded
\* as handled.
C10_CrashSafeResume ==
    (cmd = "organize" /\ pc = "dead" /\ died = "update") =>
        /\ \A k \in DOMAIN record.pending : srcExists[record.pending[k].source_file]
        /\ \A f \in Files :
              (srcExists[f] /\ \A k \in DOMAIN record.completed :
                                    record.completed[k].source_file # f)
                => \E k \in DOMAIN record.pending : record.pending[k].source_file = f

\* The files of a list of operations, in order.
FilesOf(seq) == [k \in 1 .. Len(seq) |-> seq[k].source_file]

\* The files the record on disk lists in completed with status `completed`.
ConfirmedCompleted ==
    {record.completed[k].source_file :
        k \in {j \in DOMAIN record.completed : record.completed[j].status = "completed"}}

\* The run was ended by a KeyboardInterrupt while operation idx was handled.
Cancelled == Stopped /\ exitCode = 130

\* C11: when a KeyboardInterrupt ended organize while file i was handled, the
\* record on disk lists file i in completed only with the status its move
\* reached, and its pending list is file i, exactly when the record does not
\* yet confirm file i `completed`, followed by all later files of the plan.
C11_InterruptSavesPending ==
    (Cancelled /\ cmd = "organize") =>
        LET i == ops[idx].source_file
            later == FilesOf(SubSeq(ops, idx + 1, Len(ops)))
        IN /\ \A k \in DOMAIN record.completed :
                (record.completed[k].source_file = i
                    /\ record.completed[k].status = "completed")
                        => ops[idx].status = "completed"
           /\ FilesOf(record.pending) =
                IF i \in ConfirmedCompleted THEN later ELSE <<i>> \o later

\* The plan of the run has been written to the record on disk.
PlanPersisted ==
    /\ record.exists
    /\ pc \notin {"scan", "plan", "persist"}
    /\ died \notin {"scan", "plan", "persist"}

\* C12: at every persisted snapshot of the record, from the write of the plan
\* until the record is deleted, the completed operations together with the
\* pending operations are exactly the operations of the plan: no planned file
\* is missing from both lists and none is listed twice.
C12_CompletedPlusPendingIsPlan ==
    PlanPersisted =>
        LET listed == FilesOf(record.completed) \o FilesOf(record.pending)
        IN /\ {listed[k] : k \in DOMAIN listed} = Files
           /\ Len(listed) = NumFiles

\* The files in the completed list and in the pending list of a record.
CompletedSet(rec) == {rec.completed[k].source_file : k \in DOMAIN rec.completed}

PendingSet(rec) == {rec.pending[k].source_file : k \in DOMAIN rec.pending}

\* C13: from each write of the record to the next, once the plan has been
\* written, the completed set grows and the pending set shrinks; the weaker
\* form checked here: no write makes the pending set larger or the completed
\* set smaller.
C13_MonotoneRecord ==
    [][(PlanPersisted /\ record'.exists /\ record' # record) =>
          /\ CompletedSet(record) \subseteq CompletedSet(record')
          /\ PendingSet(record') \subseteq PendingSet(record)
      ]_vars

\* C14: while the record on disk has an empty pending list, or is gone (as
\* after a run that finished), no step of the resume command calls move_file
\* or changes a file.
C14_ResumeIdempotent ==
    [][(cmd = "resume" /\ record.pending = <<>>) =>
          UNCHANGED <<srcExists, dst, dirs, calls>>
      ]_vars

\* C14 witness: resume has ended on a record that exists and whose pending
\* list was empty when it was loaded, every file having been moved before.
C14_Witness ==
    /\ cmd = "resume" /\ pc = "exited" /\ ops = <<>>
    /\ record.exists /\ record.pending = <<>> /\ Len(record.completed) = NumFiles
    /\ ConfigurationAccepts(record.keys) /\ ~ClickValidate(inv.args)

\* The source file and destination path of each operation of a list, in order.
MovesOf(seq) == [k \in 1 .. Len(seq) |-> <<seq[k].source_file, seq[k].destination_path>>]

C16_SnapshotRebuildsConfiguration ==
    (cmd = "organize" /\ record.exists) =>
        /\ ConfigurationAccepts(record.keys)
        /\ record.config.verify_checksum = cfg.verify_checksum
        /\ record.config.duplicate_handling = cfg.duplicate_handling

LoopDone == ops # <<>> /\ idx > Len(ops)

\* C18: in a run of organize or resume that has operations, the record is
\* not deleted while an operation is not yet terminal, and once the run has
\* ended with every operation terminal (terminal states have no transition,
\* so none can be retried) the record is gone, under organize as under resume.
C18_RecordLifetime ==
    (cmd \in {"organize", "resume"} /\ ops # <<>>) =>
        /\ ~record.exists => \A k \in DOMAIN ops : is_terminal(ops[k])
        /\ (Stopped /\ LoopDone /\ \A k \in DOMAIN ops : is_terminal(ops[k]))
                => ~record.exists

\* The exit code of the process of the command that has ended.
ProcessExitCode == StandaloneExitCode(exitCode)

\* C19: when a run of organize or resume has stopped with an operation in
\* status `failed`, the exit code of the process is not 0; when it has gone
\* through all of its operations, each is terminal and none failed, the exit
\* code of the process is 0.
C19_ExitCodeReflectsFailures ==
    Stopped =>
        /\ (\E k \in DOMAIN ops : ops[k].status = "failed") => ProcessExitCode # 0
        /\ (/\ LoopDone
            /\ \A k \in DOMAIN ops : is_terminal(ops[k]) /\ ops[k].status # "failed")
                => ProcessExitCode = 0

\* C20: when organize has ended inside its per-file loop, cut short by a
\* KeyboardInterrupt while a file was handled, the exit code of the process
\* is 130 and the resume record of the run is on disk.
C20_InterruptExits130 ==
    (cmd = "organize" /\ pc = "exited" /\ ops # <<>> /\ idx <= Len(ops)) =>
        /\ ProcessExitCode = 130
        /\ record.exists

\* The call of the resolver has ended, by a return or by the error.
Resolved == cmd = "resolve" /\ pc \in {"returned", "raised"}

\* The n-th name the probe of file 1 looks at: the original for n = 0.
Candidate(n) ==
    PathJoin(fileFolder[1],
             JoinDots(IF n = 0 THEN fileName[1] ELSE IncrementName(fileName[1], n)))

IncrementCall == Resolved /\ ~dry_run /\ cfg.duplicate_handling = "increment"

\* C21: under the increment policy and outside dry-run, the resolver returns
\* the original name when it is absent from the target folder and otherwise
\* stem_n.ext for the smallest n >= 1 that is absent; the name returned is
\* never present in the folder at resolution time, and the result is a
\* function of the filename and the folder's contents.
C21_IncrementResolution ==
    IncrementCall =>
        /\ (\E n \in 0 .. ProbeLimit : Candidate(n) \notin DOMAIN dst) => pc = "returned"
        /\ pc = "returned" =>
            /\ resolved \notin DOMAIN dst
            /\ \E n \in 0 .. ProbeLimit :
                /\ resolved = Candidate(n)
                /\ \A m \in 0 .. n - 1 : Candidate(m) \in DOMAIN dst

\* photo.jpg and photo_1.jpg are present and photo_2.jpg is returned.
C21_Witness ==
    /\ IncrementCall /\ pc = "returned"
    /\ {"01.2024/photo.jpg", "01.2024/photo_1.jpg"} \subseteq DOMAIN dst
    /\ resolved = "01.2024/photo_2.jpg"

AllProbedPresent == \A n \in 0 .. ProbeLimit : Candidate(n) \in DOMAIN dst

\* C22: when the original name and every increment up to the safety bound
\* exist, the increment probe stops and the call raises the error whose
\* message is 'Too many duplicates'; it returns no colliding name, and it
\* raises in no other case.
C22_ProbeTerminates ==
    IncrementCall =>
        /\ AllProbedPresent => pc = "raised" /\ resolved = TooManyDuplicates
        /\ pc = "raised" => AllProbedPresent

\* Every probed name of README is present and the call has raised.
C22_Witness ==
    /\ IncrementCall /\ AllProbedPresent
    /\ fileName[1] = <<"README">>
    /\ pc = "raised" /\ resolved = "Too many duplicates"

\* C25: in dry-run mode the resolver returns target_folder/filename with the
\* filename as given, whatever names the target folder holds and whatever
\* the duplicate policy is.
C25_DryRunResolvesOriginal ==
    Resolved /\ dry_run =>
        /\ pc = "returned"
        /\ resolved = PathJoin(fileFolder[1], JoinDots(fileName[1]))

\* A dry-run call under the increment policy with photo.jpg and photo_1.jpg
\* present returns photo.jpg.
C25_Witness ==
    /\ Resolved /\ dry_run /\ cfg.duplicate_handling = "increment"
    /\ {"01.2024/photo.jpg", "01.2024/photo_1.jpg"} \subseteq DOMAIN dst
    /\ resolved = "01.2024/photo.jpg"

\* The name the claim gives for the n-th increment: everything before the
\* last dot, then _n, then the last dot and what follows it; a name without
\* a dot gets _n at its end.
AtLastDot(segs, n) ==
    IF Len(segs) = 1 THEN segs[1] \o "_" \o ToString(n)
    ELSE JoinDots(SubSeq(segs, 1, Len(segs) - 1)) \o "_" \o ToString(n)
            \o "." \o segs[Len(segs)]

Suffix(segs) == IF Len(segs) = 1 THEN "" ELSE "." \o segs[Len(segs)]

\* C28: when only 'test' + ext is in the target folder, resolving 'test' + ext
\* gives 'test_1' + ext for every ext of the list, the compound '.tar.gz' and
\* the empty extension included, and the result has the suffix of the
\* original filename.
C28_IncrementKeepsExtension ==
    (/\ IncrementCall /\ fileName[1][1] = "test"
     /\ DOMAIN dst = {Candidate(0)}) =>
        /\ resolved = PathJoin(fileFolder[1], JoinDots(<<"test_1">> \o Tail(fileName[1])))
        /\ \E n \in 1 .. ProbeLimit :
            /\ resolved = Candidate(n)
            /\ Suffix(IncrementName(fileName[1], n)) = Suffix(fileName[1])

\* The operation move_files ran last, once move_file has returned.
LastMoved == IF pc \in {"mf_next", "exited"} /\ ops # <<>> THEN {ops[Len(ops)]} ELSE {}

OriginalPath(f) == PathJoin(fileFolder[f], JoinDots(fileName[f]))

C24_SkipKeepsBoth ==
    cmd = "organize" /\ cfg.duplicate_handling = "skip" /\ LoopDone =>
        \A k \in DOMAIN ops :
            LET o == ops[k]
                f == o.source_file
            IN  OriginalPath(f) \in DOMAIN dst0 /\ o.status # "failed" =>
                    /\ o.destination_path = OriginalPath(f)
                    /\ o.status = "skipped"
                    /\ srcExists[f]
                    /\ dst[OriginalPath(f)] = dst0[OriginalPath(f)]

\* C26: the operations move_files returns for a dry run over files of one
\* filename and one target folder have pairwise distinct destination paths.
C26_DryRunDistinctDestinations ==
    cmd = "move_files" /\ dry_run /\ pc = "exited" =>
        \A j, k \in DOMAIN ops :
            (/\ j # k
             /\ fileName[ops[j].source_file] = fileName[ops[k].source_file]
             /\ fileFolder[ops[j].source_file] = fileFolder[ops[k].source_file]) =>
                ops[j].destination_path # ops[k].destination_path

\* C29: organize plans and executes no operation for a MediaFile whose error
\* field is set: the source file of every operation of the plan, of the
\* resume record and of every move_file call has error None.
C29_ErrorFilesNeverPlanned ==
    /\ \A k \in DOMAIN ops : media[ops[k].source_file].error = None
    /\ \A k \in DOMAIN record.pending : media[record.pending[k].source_file].error = None
    /\ \A k \in DOMAIN record.completed :
            media[record.completed[k].source_file].error = None
    /\ \A f \in Files : media[f].error # None => calls[f] = 0 /\ srcExists[f]

\* A run over one file with an error and one without has gone through its
\* plan, which holds the second file only.
C29_Witness ==
    /\ cmd = "organize" /\ LoopDone
    /\ media[1].error # None
    /\ Len(ops) = 1 /\ ops[1].source_file = 2 /\ ops[1].status = "completed"

InFlight == {k \in DOMAIN ops : ops[k].status \in {"copying", "verifying"}}

\* C30: organize and resume execute the operations of a run one at a time
\* in plan order: at most one operation is in copying or verifying, an
\* operation has left pending only if the one before it is terminal, and so
\* the terminal operations are always a prefix of the plan.
C30_OneAtATimeInPlanOrder ==
    cmd \in {"organize", "resume"} =>
        /\ Cardinality(InFlight) <= 1
        /\ \A k \in DOMAIN ops :
            k > 1 /\ ops[k].status # "pending" => is_terminal(ops[k - 1])
        /\ \A j, k \in DOMAIN ops :
            j < k /\ is_terminal(ops[k]) => is_terminal(ops[j])

\* The second operation of an organize or resume run is in
\* verifying after the first one has completed.
C30_Witness ==
    /\ cmd \in {"organize", "resume"}
    /\ Len(ops) = 2
    /\ ops[1].status = "completed"
    /\ ops[2].status = "verifying"

\* The number of operations of the run whose move and record write are over.
Handled == IF pc = "progress" THEN idx ELSE idx - 1

\* The last n entries of a sequence.
LastN(seq, n) == SubSeq(seq, Len(seq) - n + 1, Len(seq))

\* C31: while organize or resume is moving a file, and between two moves, the
\* record on disk already lists every operation handled before, as it was
\* returned by move_file, at the end of its completed list, and its pending
\* list is the operations still to do: the write for file i is over before
\* the move of file i + 1 begins.
C31_WriteAfterEachFile ==
    (/\ cmd \in {"organize", "resume"} /\ ops # <<>>
     /\ pc \in InMove \cup {"progress", "finish"}) =>
        /\ record.exists
        /\ Len(record.completed) >= Handled
        /\ LastN(record.completed, Handled) = SubSeq(ops, 1, Handled)
        /\ FilesOf(record.pending) = FilesOf(SubSeq(ops, Handled + 1, Len(ops)))

\* The move of the second file is about to begin and the record lists the
\* first operation as completed and the second as pending.
C31_Witness ==
    /\ cmd \in {"organize", "resume"} /\ pc = "mv_begin" /\ idx = 2 /\ Len(ops) = 2
    /\ ops[1].status = "completed"
    /\ LastN(record.completed, 1) = <<ops[1]>>
    /\ FilesOf(record.pending) = <<ops[2].source_file>>

\* C32: when organize is about to execute an operation after the earlier
\* operations of the plan have completed, its destination is the one the
\* resolver gives at that moment, with the files those operations wrote in
\* the target folders.
C32_ResolveBeforeEachMove ==
    (/\ cmd = "organize" /\ pc = "mv_begin"
     /\ \A j \in 1 .. idx - 1 : ops[j].status = "completed") =>
        LET f == ops[idx].source_file
        IN  ops[idx].destination_path =
                GetDestinationPath(fileName[f], fileFolder[f], FALSE,
                                   cfg.duplicate_handling, dst)

\* The move of operation o has succeeded on disk: the destination holds
\* the content of the source and the source is gone.
MovedOnDisk(o) ==
    /\ ~srcExists[o.source_file]
    /\ o.destination_path \in DOMAIN dst
    /\ dst[o.destination_path] = ContentOf(o.source_file)

\* C33: with verify_checksum off, an operation of move_files whose move has
\* succeeded is completed once move_file is over, carrying two non-empty,
\* equal checksums, the sentinel for a skipped verification; and every
\* change of status on the way is one VALID_TRANSITIONS permits.
C33_UnverifiedMoveIsValid ==
    [][(cmd' = "move_files" /\ ~cfg'.verify_checksum) =>
        \A k \in DOMAIN ops' :
            /\ k \notin DOMAIN ops => ops'[k].status \in {"pending", "skipped"}
            /\ (k \in DOMAIN ops /\ ops'[k].status # ops[k].status) =>
                    ops'[k].status \in VALID_TRANSITIONS[ops[k].status]
            /\ (pc' \in {"mf_next", "exited"} /\ k = Len(ops') /\ MovedOnDisk(ops[k])') =>
                    /\ ops'[k].status = "completed"
                    /\ ~Falsy(ops'[k].checksum_source)
                    /\ ~Falsy(ops'[k].checksum_dest)
                    /\ ops'[k].checksum_source = ops'[k].checksum_dest]_vars

\* C34: when the copy of one file raises, in organize or resume, that
\* operation alone becomes failed, with the error recorded; no source and no
\* destination file changes, the other operations stay as they are, and the
\* loop goes on: a run that reaches its end has attempted every operation.
C34_CopyErrorIsPerFile ==
    [][(cmd \in {"organize", "resume"}) =>
        /\ \A k \in DOMAIN ops :
            (/\ pc = "mv_copy" /\ k \in DOMAIN ops'
             /\ ops[k].status = "copying" /\ ops'[k].status = "failed") =>
                /\ ops'[k].error_message = "copy failed"
                /\ \A j \in DOMAIN ops : j # k => j \in DOMAIN ops' /\ ops'[j] = ops[j]
                /\ srcExists' = srcExists /\ dst' = dst
                /\ pc' = "update" /\ idx' = idx
        /\ pc' = "finish" =>
            \A j \in DOMAIN ops' :
                is_terminal(ops'[j]) /\ calls'[ops'[j].source_file] >= 1
      ]_vars

\* The copy of the first file failed, its source is still there, and the
\* second file has been moved.
C34_Witness ==
    /\ cmd \in {"organize", "resume"} /\ Len(ops) = 2
    /\ ops[1].status = "failed" /\ ops[1].error_message = "copy failed"
    /\ srcExists[ops[1].source_file]
    /\ ops[2].status = "completed" /\ ~srcExists[ops[2].source_file]

\* C35: once a write of the resume record after a file has failed, the
\* command has ended with the failure code 1 and every operation after that
\* file is still pending: the run did not go on to the next file.
C35_WriteFailureIsFatal ==
    writeError =>
        /\ pc = "exited" /\ exitCode = 1
        /\ \A j \in DOMAIN ops : j > idx => ops[j].status = "pending"

\* The write after the first of two files failed and the second file was
\* not touched.
C35_Witness ==
    /\ writeError /\ cmd \in {"organize", "resume"}
    /\ Len(ops) = 2 /\ idx = 1 /\ is_terminal(ops[1])
    /\ ops[2].status = "pending" /\ srcExists[ops[2].source_file]
    /\ pc = "exited"

\* The resolution of file f fails when organize starts: the probe finds
\* every name taken.
ProbeExhausted(f) ==
    GetDestinationPath(fileName[f], fileFolder[f], FALSE, cfg.duplicate_handling, dst0)
        = TooManyDuplicates

\* C36: when the resolution of one file of a non-dry organize run fails on
\* the probe limit, that file has no operation that left pending and keeps its
\* source, and once the command has ended every other processable file has
\* been handled: its operation is terminal.
C36_ResolutionErrorIsPerFile ==
    (/\ cmd = "organize" /\ ~ArgvDryRun(inv.argv)
     /\ \E f \in Files : should_process(media[f]) /\ ProbeExhausted(f)) =>
        /\ \A f \in Files : ProbeExhausted(f) =>
            /\ srcExists[f]
            /\ \A k \in OperationOf(f) : ops[k].status = "pending"
        /\ pc = "exited" =>
            \A f \in Files : should_process(media[f]) /\ ~ProbeExhausted(f) =>
                \E k \in OperationOf(f) : is_terminal(ops[k])

\* C37: a transition_to call that raised ValueError has left status and
\* error_message as they were before the call.
C37_RaisingTransitionChangesNothing ==
    foRaised =>
        /\ fo.status = foBefore.status
        /\ fo.error_message = foBefore.error_message

\* C38: a non-dry-run organize run that ended without starting any file
\* move, because the scan found no files or none of them is processable,
\* has left no resume record behind.
C38_NoMoveNoRecord ==
    (/\ cmd = "organize" /\ pc = "exited" /\ died = NotDied
     /\ ~ArgvDryRun(inv.argv)
     /\ Processable = <<>>) =>
        record = NoRecord

\* organize went through its whole plan and at least one operation failed.
EndedWithFailure ==
    /\ cmd = "organize" /\ pc = "exited"
    /\ ops # <<>> /\ idx = Len(ops) + 1
    /\ \E k \in DOMAIN ops : ops[k].status = "failed"

\* A record with a failed operation in its completed list and nothing pending.
FailedAmongCompleted ==
    /\ record.exists
    /\ record.pending = <<>>
    /\ \E k \in DOMAIN record.completed : record.completed[k].status = "failed"

\* C39: after a non-dry-run organize run ended normally with a failed
\* operation, its record exists, lists every failed operation as completed
\* and has nothing pending; and a resume that loads a record of that form
\* ends with 1 at can_resume_operation, having built no operation, called
\* move_file for no file, and left the files and the record as they were.
C39_FailedRunIsNotResumable ==
    /\ [](EndedWithFailure =>
            /\ FailedAmongCompleted
            /\ \A k \in DOMAIN ops : ops[k].status = "failed" =>
                    \E j \in DOMAIN record.completed : record.completed[j] = ops[k])
    /\ [][(/\ cmd = "resume" /\ pc = "r_load"
           /\ ~ClickValidate(inv.args)
           /\ FailedAmongCompleted) =>
            /\ pc' = "exited" /\ exitCode' = 1
            /\ ops' = <<>>
            /\ UNCHANGED <<fsVars, calls, record>>
       ]_vars

\* A resume after an organize run whose only failure is its first file: it
\* has ended with 1, no operation built, the failed file still in the source.
C39_Witness ==
    /\ cmd = "resume" /\ pc = "exited" /\ exitCode = 1
    /\ ~ClickValidate(inv.args)
    /\ ops = <<>>
    /\ FailedAmongCompleted
    /\ record.completed[1].status = "failed"
    /\ srcExists[record.completed[1].source_file]
    /\ calls[record.completed[1].source_file] = 1

====
